---------------------------- MODULE Spec2Model ----------------------------
(***************************************************************************)
(* Model of decay.py: the theta-rule solver for u' = -a*u, u(0) = I, its   *)
(* two copies (solver_with_logging, solver_with_doctest), the closed form  *)
(* u_discrete_exact, and the two command-line readers.                     *)
(*                                                                         *)
(* Numbers.  A Python number is a record [ty, v]: ty is "int" or "float"   *)
(* and v is a normalised fraction <<n, d>> (d > 0, gcd(n, d) = 1).  ERR is *)
(* the value of an expression that raised.  The variable arith selects how *)
(* a float operation rounds its exact result: "exact" keeps it (the ideal  *)
(* arithmetic in which the value claims are stated), "fl" rounds it to     *)
(* Precision significant bits, ties to even, as IEEE-754 binary floating   *)
(* point does (binary64 has 53 bits; TLC's integers cannot hold that, so   *)
(* the rounding is modelled at a reduced precision).  Exponent range       *)
(* (overflow to inf, underflow) is not modelled.                           *)
(***************************************************************************)
EXTENDS Integers, Sequences, FiniteSets, TLC

VARIABLES arith, live, args, pc, dt, Nt, T, u, t, n, exc, logOn, log,
          argv, optv, ret

solverVars == <<arith, live, args, pc, dt, Nt, T, u, t, n, exc, logOn, log>>
cliVars    == <<argv, optv, ret>>
vars       == <<arith, live, args, pc, dt, Nt, T, u, t, n, exc, logOn, log,
                argv, optv, ret>>

(***************************************************************************)
(* Bounds of the model.                                                    *)
(***************************************************************************)
\* calls whose round(T/dt) exceeds MaxNt are not explored
MaxNt == 4
\* significant bits kept by a float operation when arith = "fl"
Precision == 4
\* largest number of dt values on a command line
MaxDt == 2

(***************************************************************************)
(* Exact fractions.                                                        *)
(***************************************************************************)
Abs(x) == IF x < 0 THEN -x ELSE x

RECURSIVE GCD(_, _)
GCD(x, y) == IF y = 0 THEN x ELSE GCD(y, x % y)

Norm(num, den) ==
    LET g == GCD(Abs(num), Abs(den))
        s == IF den < 0 THEN -1 ELSE 1
    IN  <<(s * num) \div g, (s * den) \div g>>

QAdd(x, y) == Norm(x[1] * y[2] + y[1] * x[2], x[2] * y[2])
QNeg(x)    == <<-x[1], x[2]>>
QSub(x, y) == QAdd(x, QNeg(y))
QMul(x, y) ==
    LET g1 == GCD(Abs(x[1]), y[2])
        g2 == GCD(Abs(y[1]), x[2])
    IN  IF x[1] = 0 \/ y[1] = 0 THEN <<0, 1>>
        ELSE Norm((x[1] \div g1) * (y[1] \div g2), (x[2] \div g2) * (y[2] \div g1))
QDiv(x, y) == QMul(x, Norm(y[2], y[1]))
QLt(x, y)  == x[1] * y[2] < y[1] * x[2]
QLe(x, y)  == x[1] * y[2] <= y[1] * x[2]
QAbs(x)    == <<Abs(x[1]), x[2]>>
QFloor(x)  == x[1] \div x[2]

RECURSIVE QPow(_, _)
QPow(x, k) == IF k = 0 THEN <<1, 1>> ELSE QMul(x, QPow(x, k - 1))

\* the integer nearest to x, a tie going to the even neighbour
RoundHalfEven(x) ==
    LET f == QFloor(x)
        r == x[1] - f * x[2]
    IN  IF 2 * r < x[2] THEN f
        ELSE IF 2 * r > x[2] THEN f + 1
        ELSE IF f % 2 = 0 THEN f ELSE f + 1

RECURSIVE Pow2(_)
Pow2(k) == IF k = 0 THEN 1 ELSE 2 * Pow2(k - 1)

\* <<m, e>> with x ~ m * 2^e and m of Precision bits, for x > 0
RECURSIVE FlScale(_, _, _)
FlScale(num, den, e) ==
    IF num >= den * Pow2(Precision) THEN FlScale(num, 2 * den, e + 1)
    ELSE IF num < den * Pow2(Precision - 1) THEN FlScale(2 * num, den, e - 1)
    ELSE <<RoundHalfEven(Norm(num, den)), e>>

\* x rounded to Precision significant bits, ties to even
Fl(x) ==
    IF x[1] = 0 THEN x
    ELSE LET me == FlScale(Abs(x[1]), x[2], 0)
             s  == IF x[1] < 0 THEN -1 ELSE 1
         IN  IF me[2] >= 0 THEN Norm(s * me[1] * Pow2(me[2]), 1)
             ELSE Norm(s * me[1], Pow2(-me[2]))

\* the float nearest to the exact result of a float operation
Rnd(x) == IF arith = "exact" THEN x ELSE Fl(x)

(***************************************************************************)
(* Python numbers and the operators the solver uses on them.               *)
(***************************************************************************)
ERR == [ty |-> "err", v |-> <<0, 1>>]
PyI(k)        == [ty |-> "int", v |-> <<k, 1>>]
PyF(num, den) == [ty |-> "float", v |-> Rnd(Norm(num, den))]
IsErr(x)      == x.ty = "err"

\* float(x)
float(x) == IF IsErr(x) THEN ERR ELSE [ty |-> "float", v |-> Rnd(x.v)]

Arith(x, y, q) ==
    IF IsErr(x) \/ IsErr(y) THEN ERR
    ELSE IF x.ty = "int" /\ y.ty = "int" THEN [ty |-> "int", v |-> q]
    ELSE [ty |-> "float", v |-> Rnd(q)]

PyAdd(x, y) == Arith(x, y, QAdd(x.v, y.v))
PySub(x, y) == Arith(x, y, QSub(x.v, y.v))
PyMul(x, y) == Arith(x, y, QMul(x.v, y.v))

\* x // y: the floor of the quotient (the truncating division of two integers)
FloorDiv(x, y) ==
    IF IsErr(x) \/ IsErr(y) \/ y.v[1] = 0 THEN ERR
    ELSE IF x.ty = "int" /\ y.ty = "int" THEN PyI(QFloor(QDiv(x.v, y.v)))
    ELSE [ty |-> "float", v |-> <<QFloor(QDiv(x.v, y.v)), 1>>]

\* x / y: true division, a float whatever the operands; ZeroDivisionError at y = 0
TrueDiv(x, y) ==
    IF IsErr(x) \/ IsErr(y) \/ y.v[1] = 0 THEN ERR
    ELSE [ty |-> "float", v |-> Rnd(QDiv(x.v, y.v))]

\* a rounding that always goes up: int(ceil(x))
IntCeil(x) == IF IsErr(x) THEN ERR ELSE PyI(-QFloor(QNeg(x.v)))

\* int(round(x)): Python 3 rounds a tie to the even integer
IntRound(x) == IF IsErr(x) THEN ERR ELSE PyI(RoundHalfEven(x.v))

(***************************************************************************)
(* numpy: np.zeros(num) and np.linspace(start, stop, num), as functions on *)
(* the indices 0 .. num-1.                                                 *)
(***************************************************************************)
zeros(num) == [k \in 0 .. num - 1 |-> [ty |-> "float", v |-> <<0, 1>>]]

\* linspace: step = (stop - start)/(num - 1), y[k] = k*step + start, and the
\* last sample is set to stop itself; a single sample is start
linspace(start, stop, num) ==
    LET div  == PyI(num - 1)
        step == TrueDiv(PySub(float(stop), float(start)), div)
    IN  [k \in 0 .. num - 1 |->
            IF num = 1 THEN float(start)
            ELSE IF k = num - 1 THEN float(stop)
            ELSE PyAdd(PyMul(PyI(k), step), float(start))]

(***************************************************************************)
(* The three solvers.  They differ in the order of the factors of the      *)
(* denominator (theta*a*dt in solver, theta*dt*a in the two others) and in *)
(* the logging calls of solver_with_logging.                               *)
(***************************************************************************)
Solvers == {"solver", "solver_with_logging", "solver_with_doctest"}

\* the numerator with theta in the place of 1-theta
NumeratorTheta(theta, a, dtf) ==
    PySub(PyI(1), PyMul(PyMul(theta, a), dtf))

\* 1 - (1-theta)*a*dt
Numerator(theta, a, dtf) ==
    PySub(PyI(1), PyMul(PyMul(PySub(PyI(1), theta), a), dtf))

\* the denominator with the sign of its product flipped
DenominatorMinus(fn, theta, a, dtf) ==
    PySub(PyI(1), PyMul(PyMul(theta, a), dtf))

\* the denominator with the factor a left out in solver_with_logging
DenominatorLogging(fn, theta, a, dtf) ==
    IF fn = "solver" THEN PyAdd(PyI(1), PyMul(PyMul(theta, a), dtf))
    ELSE IF fn = "solver_with_logging" THEN PyAdd(PyI(1), PyMul(theta, dtf))
    ELSE PyAdd(PyI(1), PyMul(PyMul(theta, dtf), a))

\* 1 + theta*a*dt (solver) and 1 + theta*dt*a (the two others)
Denominator(fn, theta, a, dtf) ==
    IF fn = "solver" THEN PyAdd(PyI(1), PyMul(PyMul(theta, a), dtf))
    ELSE PyAdd(PyI(1), PyMul(PyMul(theta, dtf), a))

\* the update factor of one step; ERR when the division raises
Factor(fn, theta, a, dtf) ==
    TrueDiv(Numerator(theta, a, dtf), Denominator(fn, theta, a, dtf))

\* Nt = int(round(T/dt)), dt already a float
NumIntervals(Targ, dtf) == IntRound(TrueDiv(Targ, dtf)).v[1]

\* range(0, Nt + 1): one pass too many
RangeEndPlusOne(num) == num + 1

\* range(0, Nt): the loop runs for n = 0 .. RangeEnd(Nt) - 1
RangeEnd(num) == num

\* arrays kept in one place for all the calls
SharedFrame(c) == 1

\* the call whose local arrays a statement of call c reads and writes
Frame(c) == c

\* u_discrete_exact(k, I, a, theta, dt) = I*A**k
u_discrete_exact(k, I, a, theta, dtarg) ==
    LET dtf == float(dtarg)
        A   == TrueDiv(Numerator(theta, a, dtf),
                       Denominator("u_discrete_exact", theta, a, dtf))
    IN  IF IsErr(A) THEN ERR
        ELSE PyMul(I, [ty |-> "float", v |-> Rnd(QPow(A.v, k))])

(***************************************************************************)
(* State of the calls.  Each call c has its arguments args[c], its locals  *)
(* dt[c], Nt[c], T[c], u[c], t[c], n[c], its position pc[c] ("idle",       *)
(* "call", "loop", "done", "raised") and the exception exc[c] it raised.   *)
(* log is the root logger's output, written only once                      *)
(* configure_basic_logger has set the level to DEBUG (logOn).              *)
(***************************************************************************)
Calls == {1, 2, 3}

NoArgs == [fn |-> "solver", I |-> PyI(0), a |-> PyI(0), T |-> PyI(0),
           dt |-> PyI(0), theta |-> PyI(0)]

Emit(l, recs) == IF logOn THEN l \o recs ELSE l

\* lines 9-15 (75-82, 236-242): the locals, the two arrays and u[0] = I
Setup(c) ==
    /\ c \in live
    /\ pc[c] = "call"
    /\ LET dtf == float(args[c].dt)
           num == NumIntervals(args[c].T, dtf)
           Tn  == PyMul(PyI(num), dtf)
           f   == Frame(c)
       IN  /\ dt' = [dt EXCEPT ![f] = dtf]
           /\ Nt' = [Nt EXCEPT ![f] = num]
           /\ T'  = [T EXCEPT ![f] = Tn]
           /\ u'  = [u EXCEPT ![f] = [zeros(num + 1) EXCEPT ![0] = float(args[c].I)]]
           /\ t'  = [t EXCEPT ![f] = linspace(PyI(0), Tn, num + 1)]
           /\ n'  = [n EXCEPT ![f] = 0]
           /\ log' = IF args[c].fn = "solver_with_logging"
                     THEN Emit(log, <<[lvl |-> "DEBUG", what |-> "solver",
                                       n |-> num, x |-> dtf, y |-> Tn]>>)
                     ELSE log
    /\ pc' = [pc EXCEPT ![c] = "loop"]
    /\ UNCHANGED <<arith, live, args, exc, logOn>>
    /\ UNCHANGED cliVars

\* lines 16-17 (83-93, 243-244): one pass of the loop body
Step(c) ==
    /\ c \in live
    /\ pc[c] = "loop"
    /\ n[Frame(c)] < RangeEnd(Nt[Frame(c)])
    /\ LET f   == Frame(c)
           k   == n[f]
           num == Numerator(args[c].theta, args[c].a, dt[f])
           den == Denominator(args[c].fn, args[c].theta, args[c].a, dt[f])
           A   == Factor(args[c].fn, args[c].theta, args[c].a, dt[f])
       IN  IF IsErr(A)
           THEN /\ pc' = [pc EXCEPT ![c] = "raised"]
                /\ exc' = [exc EXCEPT ![c] = "ZeroDivisionError"]
                /\ UNCHANGED <<u, n, log>>
           ELSE IF k + 1 \notin DOMAIN u[f]
           THEN /\ pc' = [pc EXCEPT ![c] = "raised"]
                /\ exc' = [exc EXCEPT ![c] = "IndexError"]
                /\ UNCHANGED <<u, n, log>>
           ELSE /\ u' = [u EXCEPT ![f][k + 1] = float(PyMul(A, u[f][k]))]
                /\ n' = [n EXCEPT ![f] = k + 1]
                /\ log' = IF args[c].fn = "solver_with_logging"
                          THEN Emit(log,
                                 <<[lvl |-> "INFO", what |-> "u", n |-> k,
                                    x |-> u[f][k], y |-> u[f][k]],
                                   [lvl |-> "DEBUG", what |-> "factors", n |-> k,
                                    x |-> num, y |-> den]>>)
                          ELSE log
                /\ UNCHANGED <<pc, exc>>
    /\ UNCHANGED <<arith, live, args, dt, Nt, T, t, logOn>>
    /\ UNCHANGED cliVars

\* line 18 (94, 245): the range is exhausted, return u, t
Return(c) ==
    /\ c \in live
    /\ pc[c] = "loop"
    /\ n[Frame(c)] >= RangeEnd(Nt[Frame(c)])
    /\ pc' = [pc EXCEPT ![c] = "done"]
    /\ UNCHANGED <<arith, live, args, dt, Nt, T, u, t, n, exc, logOn, log>>
    /\ UNCHANGED cliVars

NextSolver == \E c \in Calls : Setup(c) \/ Step(c) \/ Return(c)

(***************************************************************************)
(* Arguments explored.  Literals are the decimal numbers of the scenarios  *)
(* of the tests and of the documentation: 0.8, 1.2, 0.5, 1.5, ...          *)
(***************************************************************************)
Ivalues     == {PyI(1), PyF(4, 5), PyI(-1)}
avalues     == {PyI(-1), PyI(1), PyF(6, 5), PyI(2)}
Tvalues     == {PyI(1), PyF(3, 2), PyI(3), PyI(4), PyI(8)}
dtvalues    == {PyF(1, 2), PyF(6, 5), PyI(2), PyI(3)}
thetavalues == {PyI(0), PyF(1, 2), PyF(4, 5), PyI(1)}

ArgSet(fns) ==
    {x \in [fn : fns, I : Ivalues, a : avalues, T : Tvalues, dt : dtvalues,
            theta : thetavalues] :
        2 * x.T.v[1] * x.dt.v[2] <= (2 * MaxNt + 1) * x.dt.v[1] * x.T.v[2]}

InitCli ==
    /\ argv = <<>>
    /\ optv = <<>>
    /\ ret = [r \in {"positional", "argparse"} |-> [st |-> "none"]]

InitLocals ==
    /\ pc = [c \in Calls |-> IF c \in live THEN "call" ELSE "idle"]
    /\ dt = [c \in Calls |-> PyI(0)]
    /\ Nt = [c \in Calls |-> 0]
    /\ T = [c \in Calls |-> PyI(0)]
    /\ u = [c \in Calls |-> <<>>]
    /\ t = [c \in Calls |-> <<>>]
    /\ n = [c \in Calls |-> 0]
    /\ exc = [c \in Calls |-> "none"]
    /\ log = <<>>

\* one call of solver, in exact arithmetic
Init ==
    /\ arith = "exact"
    /\ live = {1}
    /\ logOn = FALSE
    /\ \E x \in ArgSet({"solver"}) : args = [c \in Calls |-> IF c = 1 THEN x ELSE NoArgs]
    /\ InitLocals
    /\ InitCli

Next == NextSolver

Spec == Init /\ [][Next]_vars


(***************************************************************************)
(* '%.1f' % x and '%.14f' % x (the doctest's print): the integer part and  *)
(* the decimals of |x|, rounded to nearest, a tie to the even digit.       *)
(***************************************************************************)
RECURSIVE FracDigits(_, _, _)
FracDigits(r, den, k) ==
    IF k = 0 THEN <<>>
    ELSE <<(10 * r) \div den>> \o FracDigits((10 * r) % den, den, k - 1)

RECURSIVE FracRem(_, _, _)
FracRem(r, den, k) == IF k = 0 THEN r ELSE FracRem((10 * r) % den, den, k - 1)

\* ds plus one unit in its last place, behind the digit carried out (0 or 1)
RECURSIVE Incr(_)
Incr(ds) ==
    IF ds = <<>> THEN <<1>>
    ELSE LET last  == ds[Len(ds)]
             front == SubSeq(ds, 1, Len(ds) - 1)
         IN  IF last < 9 THEN <<0>> \o front \o <<last + 1>>
             ELSE Incr(front) \o <<0>>

Format(x, k) ==
    LET q    == QAbs(x.v)
        ip   == QFloor(q)
        r0   == q[1] - ip * q[2]
        ds   == FracDigits(r0, q[2], k)
        rem  == FracRem(r0, q[2], k)
        odd  == IF k = 0 THEN ip % 2 = 1 ELSE ds[k] % 2 = 1
        up   == 2 * rem > q[2] \/ (2 * rem = q[2] /\ odd)
        inc  == Incr(ds)
    IN  IF ~up THEN [neg |-> x.v[1] < 0, int |-> ip, frac |-> ds]
        ELSE [neg |-> x.v[1] < 0, int |-> ip + inc[1], frac |-> SubSeq(inc, 2, Len(inc))]


(***************************************************************************)
(* Claims about one call of solver (specification Spec).                   *)
(***************************************************************************)
IsSolver(c) == c \in live /\ args[c].fn = "solver"
Allocated(c) == pc[c] \in {"loop", "done", "raised"}
\* the exact quotient T/dt of the arguments of call c
Quotient(c) == QDiv(args[c].T.v, args[c].dt.v)
\* the exact product a*dt of the arguments of call c
ADt(c) == QMul(args[c].a.v, args[c].dt.v)
Sign(x) == IF x[1] > 0 THEN 1 ELSE IF x[1] < 0 THEN -1 ELSE 0

\* C1: every u[k] that solver returns equals u_discrete_exact(k, I, a, theta,
\* dt) = I*A^k, for every valid input; in particular u[0] = I.
C1_SolverMatchesDiscreteExact ==
    \A c \in Calls :
        IsSolver(c) /\ pc[c] = "done" =>
            /\ u[c][0].v = args[c].I.v
            /\ \A k \in 0 .. Nt[c] :
                 LET e == u_discrete_exact(k, args[c].I, args[c].a,
                                           args[c].theta, args[c].dt)
                 IN  ~IsErr(e) /\ u[c][k].v = e.v

\* C2: the two arrays have round(T/dt) + 1 elements each, from their
\* allocation to the return, and no pass of the loop writes outside u[0..Nt].
C2_MeshLength ==
    \A c \in Calls :
        IsSolver(c) /\ Allocated(c) =>
            /\ Nt[c] = RoundHalfEven(Quotient(c))
            /\ DOMAIN u[c] = 0 .. Nt[c]
            /\ DOMAIN t[c] = 0 .. Nt[c]
            /\ Cardinality(DOMAIN u[c]) = Nt[c] + 1
            /\ n[c] \in 0 .. Nt[c]
            /\ exc[c] # "IndexError"
            /\ (pc[c] = "done" => n[c] = Nt[c])

C2_Witness ==
    IsSolver(1) /\ pc[1] = "done" /\ Nt[1] = 4 /\ Cardinality(DOMAIN t[1]) = 5

IntTyped(c) ==
    /\ args[c].I.ty = "int" /\ args[c].a.ty = "int"
    /\ args[c].T.ty = "int" /\ args[c].dt.ty = "int"

\* C3: with integer I, a, T and dt, Nt is the rounded true quotient T/dt:
\* T = k*dt gives k+1 points (T=8, dt=2: Nt=4), a quotient above a half is
\* rounded up, and T=3, dt=2 gives 2, not floor(3/2) = 1.
C3_TrueDivision ==
    \A c \in Calls :
        IsSolver(c) /\ Allocated(c) /\ IntTyped(c) =>
            LET Ti  == args[c].T.v[1]
                dti == args[c].dt.v[1]
            IN  /\ dt[c].ty = "float"
                /\ Nt[c] = RoundHalfEven(<<Ti, dti>>)
                /\ (Ti % dti = 0 =>
                       Nt[c] = Ti \div dti /\ Cardinality(DOMAIN u[c]) = Ti \div dti + 1)
                /\ (2 * (Ti % dti) > dti => Nt[c] = Ti \div dti + 1)
                /\ (Ti = 8 /\ dti = 2 => Nt[c] = 4)
                /\ (Ti = 3 /\ dti = 2 => Nt[c] = 2)

C3_Witness ==
    /\ IsSolver(1) /\ IntTyped(1) /\ pc[1] = "done"
    /\ args[1].T.v[1] = 8 /\ args[1].dt.v[1] = 3 /\ Nt[1] = 3

\* C4: solver raises no error on any valid input, also when the denominator
\* 1 + theta*a*dt is zero.
C4_SolverTotal ==
    \A c \in Calls : IsSolver(c) => pc[c] # "raised"

\* C5: with theta = 0, a*dt > 2 and I # 0, every computed u[k+1] has the
\* opposite sign to u[k] and a larger magnitude, up to k+1 = Nt at the return;
\* in the scenario I=1, a=2, T=4, dt=1.2 the factor is -7/5 and Nt = 3.
C5_Unstable ==
    \A c \in Calls :
        /\ IsSolver(c) /\ pc[c] \in {"loop", "done"}
        /\ args[c].theta.v[1] = 0 /\ QLt(<<2, 1>>, ADt(c)) /\ args[c].I.v[1] # 0
        => /\ \A k \in 0 .. n[c] - 1 :
                 /\ Sign(u[c][k + 1].v) = -Sign(u[c][k].v)
                 /\ Sign(u[c][k].v) # 0
                 /\ QLt(QAbs(u[c][k].v), QAbs(u[c][k + 1].v))
           /\ (pc[c] = "done" => n[c] = Nt[c])
           /\ (args[c].a.v = <<2, 1>> /\ args[c].dt.v = <<6, 5>> /\ args[c].T.v = <<4, 1>>
                 => /\ Nt[c] = 3
                    /\ Factor("solver", args[c].theta, args[c].a, dt[c]).v = <<-7, 5>>)

C5_Witness ==
    /\ IsSolver(1) /\ pc[1] = "done" /\ args[1].theta.v[1] = 0
    /\ args[1].I.v = <<1, 1>> /\ args[1].a.v = <<2, 1>>
    /\ args[1].dt.v = <<6, 5>> /\ args[1].T.v = <<4, 1>>
    /\ u[1][3].v = <<-343, 125>>

\* C6: the mesh starts at 0, t[k] = k*dt for every k, and its last point
\* Nt*dt exceeds the requested T by at most dt/2.
C6_Mesh ==
    \A c \in Calls :
        IsSolver(c) /\ Allocated(c) =>
            /\ t[c][0].v = <<0, 1>>
            /\ \A k \in 0 .. Nt[c] : t[c][k].v = QMul(<<k, 1>>, args[c].dt.v)
            /\ QLe(QSub(t[c][Nt[c]].v, args[c].T.v), QDiv(args[c].dt.v, <<2, 1>>))

\* a quotient at a half that is rounded up: the mesh ends dt/2 after T
C6_Witness ==
    /\ IsSolver(1) /\ pc[1] = "done" /\ Nt[1] = 2
    /\ args[1].T.v = <<3, 1>> /\ args[1].dt.v = <<2, 1>>
    /\ QSub(t[1][2].v, args[1].T.v) = QDiv(args[1].dt.v, <<2, 1>>)

Doctest(c) ==
    /\ args[c].I.v = <<4, 5>> /\ args[c].a.v = <<6, 5>> /\ args[c].T.v = <<3, 2>>
    /\ args[c].dt.v = <<1, 2>> /\ args[c].theta.v = <<1, 2>>

\* C7: solver(I=0.8, a=1.2, T=1.5, dt=0.5, theta=0.5) returns four points,
\* t = 0.0, 0.5, 1.0, 1.5 and u[k] = 0.8*(7/13)^k, printed with 14 decimals as
\* 0.80000000000000, 0.43076923076923, 0.23195266272189, 0.12489758761948.
C7_DoctestValues ==
    \A c \in Calls :
        IsSolver(c) /\ pc[c] = "done" /\ Doctest(c) =>
            /\ DOMAIN u[c] = 0 .. 3 /\ DOMAIN t[c] = 0 .. 3
            /\ \A k \in 0 .. 3 : u[c][k].v = QMul(<<4, 5>>, QPow(<<7, 13>>, k))
            /\ [k \in 0 .. 3 |-> Format(t[c][k], 1)] =
                 [k \in 0 .. 3 |->
                    [neg |-> FALSE, int |-> k \div 2,
                     frac |-> IF k % 2 = 0 THEN <<0>> ELSE <<5>>]]
            /\ \A k \in 0 .. 3 : Format(u[c][k], 14).int = 0 /\ ~Format(u[c][k], 14).neg
            /\ Format(u[c][0], 14).frac = <<8, 0, 0, 0, 0, 0, 0, 0, 0, 0, 0, 0, 0, 0>>
            /\ Format(u[c][1], 14).frac = <<4, 3, 0, 7, 6, 9, 2, 3, 0, 7, 6, 9, 2, 3>>
            /\ Format(u[c][2], 14).frac = <<2, 3, 1, 9, 5, 2, 6, 6, 2, 7, 2, 1, 8, 9>>
            /\ Format(u[c][3], 14).frac = <<1, 2, 4, 8, 9, 7, 5, 8, 7, 6, 1, 9, 4, 8>>

C7_Witness == IsSolver(1) /\ pc[1] = "done" /\ Doctest(1) /\ n[1] = 3


(***************************************************************************)
(* Two calls whose steps interleave (specification SpecPar).  Alone(x) is  *)
(* what a call with the arguments x returns when nothing else runs: the    *)
(* statements of the solver applied one after the other.                   *)
(***************************************************************************)
RECURSIVE RunLoop(_, _, _, _, _)
RunLoop(x, dtf, num, uu, k) ==
    IF k >= num THEN [pc |-> "done", exc |-> "none", u |-> uu, n |-> k]
    ELSE LET A == Factor(x.fn, x.theta, x.a, dtf)
         IN  IF IsErr(A)
             THEN [pc |-> "raised", exc |-> "ZeroDivisionError", u |-> uu, n |-> k]
             ELSE RunLoop(x, dtf, num,
                          [uu EXCEPT ![k + 1] = float(PyMul(A, uu[k]))], k + 1)

Alone(x) ==
    LET dtf == float(x.dt)
        num == NumIntervals(x.T, dtf)
        r   == RunLoop(x, dtf, num, [zeros(num + 1) EXCEPT ![0] = float(x.I)], 0)
    IN  [pc |-> r.pc, exc |-> r.exc, u |-> r.u, n |-> r.n, Nt |-> num,
         t |-> linspace(PyI(0), PyMul(PyI(num), dtf), num + 1)]

ParArgs ==
    [fn : {"solver", "solver_with_logging"}, I : {PyI(1), PyF(4, 5)},
     a : {PyI(-1), PyI(2)}, T : {PyI(3)}, dt : {PyF(6, 5), PyI(2)},
     theta : {PyF(1, 2)}]

InitPar ==
    /\ arith = "exact"
    /\ live = {1, 2}
    /\ logOn \in BOOLEAN
    /\ \E x \in ParArgs, y \in ParArgs :
         args = [c \in Calls |-> IF c = 1 THEN x ELSE IF c = 2 THEN y ELSE NoArgs]
    /\ InitLocals
    /\ InitCli

SpecPar == InitPar /\ [][Next]_vars

\* C8: with the steps of two calls interleaved in any order, each call's
\* arrays are at every moment what the call alone would have computed so far,
\* its result is the one it returns alone, two calls with identical arguments
\* return identical results, and no call touches the arrays of another.
C8_Independent ==
    /\ \A c \in live :
         LET r == Alone(args[c])
         IN  /\ Allocated(c) =>
                  /\ Nt[c] = r.Nt /\ t[c] = r.t
                  /\ DOMAIN u[c] = DOMAIN r.u
                  /\ \A k \in DOMAIN u[c] :
                       u[c][k] = IF k <= n[c] THEN r.u[k] ELSE zeros(1)[0]
             /\ pc[c] \in {"done", "raised"} =>
                  /\ pc[c] = r.pc /\ exc[c] = r.exc /\ u[c] = r.u /\ t[c] = r.t
             /\ pc[c] = "call" => u[c] = <<>> /\ t[c] = <<>>
    /\ \A c \in live, d \in live :
         /\ [args[c] EXCEPT !.fn = "solver"] = [args[d] EXCEPT !.fn = "solver"]
         /\ pc[c] \in {"done", "raised"} /\ pc[d] \in {"done", "raised"}
         => pc[c] = pc[d] /\ u[c] = u[d] /\ t[c] = t[d]

\* both calls returned, call 2 having taken steps between those of call 1
C8_Witness ==
    /\ live = {1, 2} /\ pc[1] = "done" /\ pc[2] = "done"
    /\ args[1].I # args[2].I /\ args[1].a = args[2].a /\ args[1].dt # args[2].dt
    /\ args[1].fn = "solver_with_logging" /\ args[2].fn = "solver_with_logging"
    /\ Len(log) = 10
    /\ log[1].x = dt[1] /\ log[2].x = dt[2] /\ log[3].x = u[1][0] /\ log[5].x = u[2][0]
    /\ log[7].x = u[1][1]

(***************************************************************************)
(* The three solvers on the same arguments (specification SpecVariants):   *)
(* call 1 is solver, call 2 solver_with_logging, call 3 solver_with_doctest*)
(* and a float operation either keeps or rounds its exact result.          *)
(***************************************************************************)
\* theta = 0.8 and dt = 0.8 are those of test_u_discrete_exact
VarArgs ==
    [fn : {"solver"}, I : {PyI(1), PyF(4, 5)}, a : {PyI(-1), PyF(6, 5), PyI(2)},
     T : {PyF(3, 2), PyI(2)}, dt : {PyF(4, 5), PyI(2)},
     theta : {PyI(0), PyF(1, 2), PyF(4, 5), PyI(1)}]

FnOf(c) == IF c = 1 THEN "solver"
           ELSE IF c = 2 THEN "solver_with_logging" ELSE "solver_with_doctest"

InitVariants ==
    /\ arith \in {"exact", "fl"}
    /\ live = {1, 2, 3}
    /\ logOn = TRUE
    /\ \E x \in VarArgs : args = [c \in Calls |-> [x EXCEPT !.fn = FnOf(c)]]
    /\ InitLocals
    /\ InitCli

SpecVariants == InitVariants /\ [][Next]_vars

\* calls c and d have gone through the same states as far as both have gone
SameStates(c, d) ==
    /\ Allocated(c) /\ Allocated(d) =>
         /\ dt[c] = dt[d] /\ Nt[c] = Nt[d] /\ T[c] = T[d] /\ t[c] = t[d]
         /\ \A k \in DOMAIN u[c] \cap DOMAIN u[d] :
              k <= n[c] /\ k <= n[d] => u[c][k] = u[d][k]
         /\ n[c] = n[d] => pc[c] = pc[d] \/ "loop" \in {pc[c], pc[d]}
    /\ pc[c] \in {"done", "raised"} /\ pc[d] \in {"done", "raised"} =>
         pc[c] = pc[d] /\ exc[c] = exc[d] /\ u[c] = u[d] /\ t[c] = t[d]

\* the denominator of solver evaluates to that of the two other solvers
SameDenominator(c) ==
    Denominator("solver", args[c].theta, args[c].a, float(args[c].dt))
      = Denominator("solver_with_doctest", args[c].theta, args[c].a, float(args[c].dt))

\* what the log holds is what solver_with_logging had at the time
LogObserves ==
    /\ (~logOn => log = <<>>)
    /\ \A i \in 1 .. Len(log) :
         /\ log[i].what = "solver" => log[i].n = Nt[2] /\ log[i].x = dt[2] /\ log[i].y = T[2]
         /\ log[i].what = "u" => log[i].n < n[2] /\ log[i].x = u[2][log[i].n]
         /\ log[i].what = "factors" =>
              /\ log[i].x = Numerator(args[2].theta, args[2].a, dt[2])
              /\ log[i].y = Denominator(args[2].fn, args[2].theta, args[2].a, dt[2])

\* C10 as stated: solver, solver_with_logging and solver_with_doctest go
\* through the same states and return the same (u, t) for every input, and
\* the logging calls only observe.
C10_VariantsEquivalent ==
    /\ SameStates(1, 2) /\ SameStates(1, 3) /\ SameStates(2, 3)
    /\ LogObserves

\* C10 as amended: solver_with_logging and solver_with_doctest go through
\* the same states for every input; solver does whenever its denominator
\* 1 + theta*a*dt evaluates to the 1 + theta*dt*a of the two others, which it
\* does in exact arithmetic and for theta in {0, 0.5, 1}; the logging calls
\* only observe.
C10_VariantsEquivalentUpToRounding ==
    /\ SameStates(2, 3)
    /\ SameDenominator(1) => SameStates(1, 2) /\ SameStates(1, 3)
    /\ arith = "exact" => SameDenominator(1)
    /\ args[1].theta.v \in {<<0, 1>>, <<1, 2>>, <<1, 1>>} => SameDenominator(1)
    /\ LogObserves

\* all three returned, in rounded arithmetic: solver's denominator differs
\* and so does its u, while the two other solvers agree
C10_Witness ==
    /\ arith = "fl" /\ logOn
    /\ \A c \in Calls : pc[c] = "done" /\ Nt[c] = 2
    /\ ~SameDenominator(1)
    /\ u[1] # u[2] /\ u[2] = u[3] /\ t[1] = t[2]
    /\ Len(log) = 5


(***************************************************************************)
(* The command line.  A token is the sequence of its characters; argv is   *)
(* the sys.argv given to read_command_line_positional and optv the one     *)
(* given to read_command_line_argparse, both starting with the program's   *)
(* name.  ret holds what each reader returned: [st |-> "ok", ...], an exit *)
(* [st |-> "exit", code |-> k] or [st |-> "raised", exc |-> e].            *)
(***************************************************************************)
DigitChars == <<"0", "1", "2", "3", "4", "5", "6", "7", "8", "9">>
IsDigit(ch) == \E i \in 1 .. 10 : DigitChars[i] = ch
DigitVal(ch) == (CHOOSE i \in 1 .. 10 : DigitChars[i] = ch) - 1
AllDigits(x) == \A i \in 1 .. Len(x) : IsDigit(x[i])

RECURSIVE DigitsValue(_)
DigitsValue(x) ==
    IF x = <<>> THEN 0
    ELSE 10 * DigitsValue(SubSeq(x, 1, Len(x) - 1)) + DigitVal(x[Len(x)])

RECURSIVE Pow10(_)
Pow10(k) == IF k = 0 THEN 1 ELSE 10 * Pow10(k - 1)

\* the first index of x holding a character of chs, 0 when there is none
Find(x, chs) ==
    IF \E i \in 1 .. Len(x) : x[i] \in chs
    THEN CHOOSE i \in 1 .. Len(x) :
            x[i] \in chs /\ \A j \in 1 .. i - 1 : x[j] \notin chs
    ELSE 0

\* float(token): [sign] digits [. digits] [e [sign] digits]; ERR is ValueError
ParseFloat(x) ==
    LET signed  == x # <<>> /\ x[1] \in {"-", "+"}
        body    == IF signed THEN Tail(x) ELSE x
        ePos    == Find(body, {"e", "E"})
        mant    == IF ePos = 0 THEN body ELSE SubSeq(body, 1, ePos - 1)
        expo    == IF ePos = 0 THEN <<>> ELSE SubSeq(body, ePos + 1, Len(body))
        eSigned == expo # <<>> /\ expo[1] \in {"-", "+"}
        eDigits == IF eSigned THEN Tail(expo) ELSE expo
        dot     == Find(mant, {"."})
        ip      == IF dot = 0 THEN mant ELSE SubSeq(mant, 1, dot - 1)
        fp      == IF dot = 0 THEN <<>> ELSE SubSeq(mant, dot + 1, Len(mant))
        ok      == /\ AllDigits(ip) /\ AllDigits(fp) /\ Len(ip) + Len(fp) >= 1
                   /\ ePos # 0 => eDigits # <<>> /\ AllDigits(eDigits)
        m       == Norm(DigitsValue(ip \o fp), Pow10(Len(fp)))
        p       == <<Pow10(DigitsValue(eDigits)), 1>>
        mag     == IF eSigned /\ expo[1] = "-" THEN QDiv(m, p) ELSE QMul(m, p)
    IN  IF ~ok THEN ERR
        ELSE [ty |-> "float",
              v |-> Rnd(IF signed /\ x[1] = "-" THEN QNeg(mag) ELSE mag)]

BE == <<"B", "E">>
CN == <<"C", "N">>
FE == <<"F", "E">>

\* scheme2theta of read_command_line_positional
scheme2theta_positional == (BE :> PyI(1)) @@ (CN :> PyF(1, 2)) @@ (FE :> PyI(0))

\* the table with BE and FE exchanged
scheme2theta_swapped == (BE :> PyI(0)) @@ (CN :> PyF(1, 2)) @@ (FE :> PyI(1))

\* scheme2theta of read_command_line_argparse
scheme2theta_argparse == (BE :> PyI(1)) @@ (CN :> PyF(1, 2)) @@ (FE :> PyI(0))

\* [float(arg) for arg in toks]
FloatList(toks) == [i \in 1 .. Len(toks) |-> ParseFloat(toks[i])]
AnyErr(xs) == \E i \in 1 .. Len(xs) : IsErr(xs[i])

read_command_line_positional(av) ==
    IF Len(av) < 6 THEN [st |-> "exit", code |-> 1]
    ELSE LET I0     == ParseFloat(av[2])
             a0     == ParseFloat(av[3])
             T0     == ParseFloat(av[4])
             scheme == av[5]
             dts    == FloatList(SubSeq(av, 6, Len(av)))
         IN  IF IsErr(I0) \/ IsErr(a0) \/ IsErr(T0)
             THEN [st |-> "raised", exc |-> "ValueError"]
             ELSE IF scheme \notin DOMAIN scheme2theta_positional
             THEN [st |-> "exit", code |-> 1]
             ELSE IF AnyErr(dts) THEN [st |-> "raised", exc |-> "ValueError"]
             ELSE [st |-> "ok", I |-> I0, a |-> a0, T |-> T0,
                   theta |-> scheme2theta_positional[scheme], dt_values |-> dts]

\* the options of define_command_line_options: names, destination, type,
\* number of values ("one", or "plus" for nargs='+')
Options ==
    { [names |-> {<<"-", "-", "I">>, <<"-", "-", "i", "n", "i", "t", "i", "a", "l", "_", "c", "o", "n", "d", "i", "t", "i", "o", "n">>},
       dest |-> "I", type |-> "float", nargs |-> "one"],
      [names |-> {<<"-", "-", "a">>},
       dest |-> "a", type |-> "float", nargs |-> "one"],
      [names |-> {<<"-", "-", "T">>, <<"-", "-", "s", "t", "o", "p", "_", "t", "i", "m", "e">>},
       dest |-> "T", type |-> "float", nargs |-> "one"],
      [names |-> {<<"-", "-", "s", "c", "h", "e", "m", "e">>},
       dest |-> "scheme", type |-> "str", nargs |-> "one"],
      [names |-> {<<"-", "-", "d", "t">>, <<"-", "-", "t", "i", "m", "e", "_", "s", "t", "e", "p", "_", "v", "a", "l", "u", "e", "s">>},
       dest |-> "dt_values", type |-> "float", nargs |-> "plus"] }

\* the defaults of the options
Defaults ==
    [st |-> "ok", I |-> PyF(1, 1), a |-> PyF(1, 1), T |-> PyF(1, 1),
     scheme |-> CN, dt_values |-> <<PyF(1, 1)>>]

\* argparse takes a token starting with '-' for a value only when it is a
\* negative number written -digits or -digits.digits (no option of this
\* parser looks like one); any other such token is an option string
NegativeNumberLike(x) ==
    /\ Len(x) > 1 /\ x[1] = "-"
    /\ LET r   == Tail(x)
           dot == Find(r, {"."})
       IN  IF dot = 0 THEN AllDigits(r)
           ELSE /\ AllDigits(SubSeq(r, 1, dot - 1))
                /\ dot < Len(r) /\ AllDigits(SubSeq(r, dot + 1, Len(r)))

OptionLike(x) == Len(x) > 1 /\ x[1] = "-" /\ ~NegativeNumberLike(x)

\* the number of tokens from index i on that are values, up to the next option
RECURSIVE ValueRun(_, _)
ValueRun(toks, i) ==
    IF i > Len(toks) \/ OptionLike(toks[i]) THEN 0 ELSE 1 + ValueRun(toks, i + 1)

Usage == [st |-> "exit", code |-> 2]

\* parser.parse_args(): the tokens from index i on, into the namespace ns
RECURSIVE ParseArgs(_, _, _)
ParseArgs(toks, i, ns) ==
    IF i > Len(toks) THEN ns
    ELSE IF toks[i] \in {<<"-", "h">>, <<"-", "-", "h", "e", "l", "p">>} THEN [st |-> "exit", code |-> 0]
    ELSE IF ~\E o \in Options : toks[i] \in o.names THEN Usage
    ELSE LET o    == CHOOSE o \in Options : toks[i] \in o.names
             k    == ValueRun(toks, i + 1)
             take == IF o.nargs = "one" THEN 1 ELSE k
             raw  == SubSeq(toks, i + 1, i + take)
             vals == IF o.type = "float" THEN FloatList(raw) ELSE raw
         IN  IF k = 0 THEN Usage
             ELSE IF o.type = "float" /\ AnyErr(vals) THEN Usage
             ELSE ParseArgs(toks, i + 1 + take,
                            [ns EXCEPT ![o.dest] =
                                IF o.nargs = "one" THEN vals[1] ELSE vals])

read_command_line_argparse(av) ==
    LET ns == ParseArgs(Tail(av), 1, Defaults)
    IN  IF ns.st # "ok" THEN ns
        ELSE IF ns.scheme \notin DOMAIN scheme2theta_argparse
        THEN [st |-> "raised", exc |-> "KeyError"]
        ELSE [st |-> "ok", I |-> ns.I, a |-> ns.a, T |-> ns.T,
              theta |-> scheme2theta_argparse[ns.scheme], dt_values |-> ns.dt_values]

\* the tests' call of read_command_line_positional on sys.argv
ReadPositional ==
    /\ argv # <<>>
    /\ ret["positional"].st = "none"
    /\ ret' = [ret EXCEPT !["positional"] = read_command_line_positional(argv)]
    /\ UNCHANGED <<argv, optv>>
    /\ UNCHANGED solverVars

\* the tests' call of read_command_line_argparse on sys.argv
ReadArgparse ==
    /\ optv # <<>>
    /\ ret["argparse"].st = "none"
    /\ ret' = [ret EXCEPT !["argparse"] = read_command_line_argparse(optv)]
    /\ UNCHANGED <<argv, optv>>
    /\ UNCHANGED solverVars

NextCli == ReadPositional \/ ReadArgparse

(***************************************************************************)
(* Command lines explored: each number as a token and the value it writes. *)
(* 1.6, 1.8, 2.2, 0.1, 0.2, 0.05 are the tests' numbers; -1e-05 is how     *)
(* Python's str writes -0.00001.                                           *)
(***************************************************************************)
Prog == <<"d">>
ITokens  == { [text |-> <<"1", ".", "6">>, val |-> <<8, 5>>],
              [text |-> <<"1">>, val |-> <<1, 1>>],
              [text |-> <<"-", "1">>, val |-> <<-1, 1>>],
              [text |-> <<"-", "1", ".", "5">>, val |-> <<-3, 2>>],
              [text |-> <<"-", "1", "e", "-", "0", "5">>, val |-> <<-1, 100000>>] }
aTokens  == { [text |-> <<"1", ".", "8">>, val |-> <<9, 5>>],
              [text |-> <<"-", "1">>, val |-> <<-1, 1>>],
              [text |-> <<"2", "e", "-", "0", "5">>, val |-> <<1, 50000>>] }
TTokens  == { [text |-> <<"2", ".", "2">>, val |-> <<11, 5>>],
              [text |-> <<"4">>, val |-> <<4, 1>>] }
dtTokens == { [text |-> <<"0", ".", "1">>, val |-> <<1, 10>>],
              [text |-> <<"0", ".", "2">>, val |-> <<1, 5>>],
              [text |-> <<"0", ".", "0", "5">>, val |-> <<1, 20>>] }
Schemes  == {BE, CN, FE}

DtLists == UNION {[1 .. k -> dtTokens] : k \in 1 .. MaxDt}
Texts(xs) == [i \in 1 .. Len(xs) |-> xs[i].text]

\* the option groups in the order of test_read_command_line_argparse
\* (a, I, T, scheme, dt), in the order of the positional line, dt first
OptionLine(order, Ik, ak, Tk, sk, dk) ==
    LET gI == <<<<"-", "-", "I">>, Ik.text>>
        ga == <<<<"-", "-", "a">>, ak.text>>
        gT == <<<<"-", "-", "T">>, Tk.text>>
        gs == <<<<"-", "-", "s", "c", "h", "e", "m", "e">>, sk>>
        gd == <<<<"-", "-", "d", "t">>>> \o Texts(dk)
    IN  <<Prog>> \o
        (IF order = 1 THEN ga \o gI \o gT \o gs \o gd
         ELSE IF order = 2 THEN gI \o ga \o gT \o gs \o gd
         ELSE gd \o gs \o gT \o ga \o gI)

InitCommandLine ==
    \E Ik \in ITokens, ak \in aTokens, Tk \in TTokens, sk \in Schemes,
       dk \in DtLists, order \in 1 .. 3 :
        /\ argv = <<Prog, Ik.text, ak.text, Tk.text, sk>> \o Texts(dk)
        /\ optv = OptionLine(order, Ik, ak, Tk, sk, dk)

InitReaders ==
    /\ arith = "exact"
    /\ live = {}
    /\ logOn = FALSE
    /\ args = [c \in Calls |-> NoArgs]
    /\ InitLocals
    /\ InitCommandLine
    /\ ret = [r \in {"positional", "argparse"} |-> [st |-> "none"]]

SpecCli == InitReaders /\ [][NextCli]_vars


(***************************************************************************)
(* Claims about the two readers (specification SpecCli).                   *)
(***************************************************************************)
AllTokens == ITokens \cup aTokens \cup TTokens \cup dtTokens
ValueOf(text) == [ty |-> "float", v |-> (CHOOSE e \in AllTokens : e.text = text).val]

\* the mapping BE -> 1, CN -> 0.5, FE -> 0
ThetaOf(scheme) ==
    IF scheme = BE THEN PyI(1) ELSE IF scheme = CN THEN PyF(1, 2) ELSE PyI(0)

\* the tuple (I, a, T, theta, dt_values) that the positional line argv gives
Given ==
    [st |-> "ok", I |-> ValueOf(argv[2]), a |-> ValueOf(argv[3]),
     T |-> ValueOf(argv[4]), theta |-> ThetaOf(argv[5]),
     dt_values |-> [i \in 1 .. Len(argv) - 5 |-> ValueOf(argv[5 + i])]]

\* the two lines give the same data: the values of the options are the
\* positional arguments
SameData ==
    /\ Len(argv) >= 6 /\ Len(optv) = Len(argv) + 5
    /\ \A i \in 2 .. Len(argv) : \E j \in 2 .. Len(optv) : optv[j] = argv[i]

Returned(r) == ret[r].st # "none"

\* every number of the line is a token argparse takes for a value
PlainNumbers ==
    \A i \in (2 .. 4) \cup (6 .. Len(argv)) : ~OptionLike(argv[i])

\* C9 as stated: on every command line giving I, a, T, a scheme of BE, CN,
\* FE and one or more dt values, both readers return (I, a, T, theta,
\* dt_values) with theta the scheme's value and dt_values in the order given,
\* and the two agree.
C9_ReadersAgree ==
    /\ Returned("positional") => ret["positional"] = Given
    /\ Returned("argparse") => ret["argparse"] = Given
    /\ Returned("positional") /\ Returned("argparse") =>
         ret["positional"] = ret["argparse"]

\* C9 as amended: read_command_line_positional returns the tuple on every
\* such line; read_command_line_argparse returns the same tuple when every
\* number starting with '-' is written -digits or -digits.digits, and exits
\* with status 2 on a line with a negative number in another notation (-1e-05).
C9_ReadersAgreeOnPlainNumbers ==
    /\ SameData
    /\ Returned("positional") => ret["positional"] = Given
    /\ Returned("argparse") =>
         ret["argparse"] = IF PlainNumbers THEN Given ELSE Usage
    /\ Returned("positional") /\ Returned("argparse") /\ PlainNumbers =>
         ret["positional"] = ret["argparse"]

\* both readers returned the tuple of a line with negative numbers, two dt
\* values and the options in the reverse order
C9_Witness ==
    /\ Returned("positional") /\ Returned("argparse")
    /\ ret["positional"] = ret["argparse"] /\ ret["argparse"].st = "ok"
    /\ ret["argparse"].I.v = <<-3, 2>> /\ ret["argparse"].a.v = <<-1, 1>>
    /\ ret["argparse"].theta = PyI(1)
    /\ ret["argparse"].dt_values = <<ValueOf(<<"0", ".", "2">>), ValueOf(<<"0", ".", "0", "5">>)>>
    /\ optv[2] = <<"-", "-", "d", "t">>

=============================================================================
